---- MODULE Spec2Model ----
(***************************************************************************)
(* Station map engine of the trainsign web UI                              *)
(* (ui/src/components/StopsMapView.tsx and its collaborators).             *)
(*                                                                         *)
(* Part 1: the popup interaction of one StationMarker: the pin flag, the   *)
(* Leaflet popup of the marker, the close-timeout ref and the browser's    *)
(* timer table, driven by pointer events, timer callbacks and unmount.     *)
(* Part 2: the stop catalog, the selected stop ids, the station grouping   *)
(* and the tri-state selection indicator.                                  *)
(* Part 3: the map view of the stop selector: the transit type filter, the *)
(* memoised station groups and the marker layout that separates markers    *)
(* that would overlap.                                                     *)
(* Part 4: saving the selection (useStops.saveSelectedStops), the manual   *)
(* location kept in localStorage (useLocation), and the distance helpers   *)
(* of the list view (utils/geo.ts).                                        *)
(***************************************************************************)
EXTENDS Integers, Sequences, FiniteSets, TLC

\* ------------------------------------------------------------------------
\* Bounds of the model and program constants
\* ------------------------------------------------------------------------

\* number of setTimeout calls one marker may issue in a run
MaxTimers == 3

\* milliseconds that pass in one step of the clock
TickMs == 50

\* delay handed to setTimeout by scheduleClose
CLOSE_DELAY == 150

\* value of closeTimeoutRef.current when it holds no timer id (null)
NoTimer == 0

\* longest stop catalog the backend returns
MaxStops == 3

\* number of saves one session issues
MaxSaves == 2

\* number of page loads of one browser
MaxSessions == 2

\* the grid of backend distances has MaxGrid steps of 0.0025 miles
MaxGrid == 160

\* longest stop id of the catalogs that hold one train stop with an arbitrary id
MaxIdLen == 4

VARIABLES
  mounted,          \* the StationMarker component is mounted
  isPinned,         \* useState(false): the popup was pinned by a click
  popupOpen,        \* the marker's Leaflet popup is open (markerRef.current)
  closeTimeoutRef,  \* closeTimeoutRef.current: NoTimer or a timer id
  timers,           \* the browser's timer table: id |-> timer, in creation order
  pointer,          \* element under the pointer as told by the enter/leave events
  lastEvent,        \* the last pointer or lifecycle event the marker handled
  stops,            \* useStops: the stop catalog, a sequence of Stop records
  selectedStopIds,  \* useStops: the selected stop ids, a sequence of stop ids
  loading,          \* useStops: the selection has not been fetched yet
  stopsFetched,     \* useStops: fetchStops has completed
  showTrains,       \* StopsSelector: useState(true), train stops pass the filter
  showBuses,        \* StopsSelector: useState(false), bus stops pass the filter
  mapView,          \* StopsMapView: not mounted, crashed, or its two memos
  listView,         \* StopsListView: not mounted, or its memo filteredStops
  error,            \* useStops: useState(null), the last error message
  saveRequests,     \* the bodies of the POSTs of saveSelectedStops that are in flight
  savesIssued,      \* number of saves issued in this session
  saveStatus,       \* StopsSelector: useState(null), the label of the save button
  statusTimers,     \* pending setTimeout(() => setSaveStatus(null), 2000) callbacks
  browserLocation,  \* useGeolocation: the location of the browser, or NoLocation
  manualLocation,   \* useLocation: useState(null), the location set by dragging
  initialized,      \* useLocation: the mount effect has run
  localStorage,     \* the item 'trainsign-manual-location', or NoItem
  storageThrew,     \* a localStorage call of this browser has thrown and was ignored
  session           \* number of page loads so far

popupVars == <<mounted, isPinned, popupOpen, closeTimeoutRef, timers, pointer, lastEvent>>

saveVars == <<error, saveRequests, savesIssued, saveStatus, statusTimers>>

locVars == <<browserLocation, manualLocation, initialized, localStorage, storageThrew, session>>

stopsVars == <<stops, selectedStopIds, loading, stopsFetched, showTrains, showBuses, mapView,
               listView, saveVars, locVars>>

vars == <<mounted, isPinned, popupOpen, closeTimeoutRef, timers, pointer, lastEvent,
          stops, selectedStopIds, loading, stopsFetched, showTrains, showBuses, mapView,
          listView, error, saveRequests, savesIssued, saveStatus, statusTimers,
          browserLocation, manualLocation, initialized, localStorage, storageThrew, session>>

\* ------------------------------------------------------------------------
\* Browser timers
\* ------------------------------------------------------------------------

Max0(n) == IF n < 0 THEN 0 ELSE n

\* ids of the timers that are scheduled and neither fired nor cleared
Pending == {i \in 1..Len(timers) : timers[i].status = "pending"}

\* setTimeout(callback, CLOSE_DELAY): a new timer whose callback closes over
\* the isPinned value of the render that created scheduleClose
setTimeout(tab, captured) ==
  Append(tab, [status |-> "pending", remaining |-> CLOSE_DELAY, isPinned |-> captured])

\* clearTimeout(id): cancels a pending timer, no effect on a fired or cleared one
clearTimeout(tab, id) ==
  IF id \in 1..Len(tab) /\ tab[id].status = "pending"
    THEN [tab EXCEPT ![id].status = "cleared"]
    ELSE tab

\* ------------------------------------------------------------------------
\* StationMarker callbacks
\* ------------------------------------------------------------------------

clearCloseTimeout(ref, tab) ==
  IF ref # NoTimer
    THEN [ref |-> NoTimer, tab |-> clearTimeout(tab, ref)]
    ELSE [ref |-> ref, tab |-> tab]

\* scheduleClose without the leading clearCloseTimeout()
scheduleCloseNoClear(ref, tab, captured) ==
  [ref |-> Len(tab) + 1, tab |-> setTimeout(tab, captured)]

scheduleClose(ref, tab, captured) ==
  LET c == clearCloseTimeout(ref, tab)
  IN  [ref |-> Len(c.tab) + 1, tab |-> setTimeout(c.tab, captured)]

\* the callback with its test inverted: if (isPinned) closePopup()
closeCallbackInverted(captured, open) ==
  IF captured THEN FALSE ELSE open

\* the callback handed to setTimeout by scheduleClose: the new popup state
closeCallback(captured, open) ==
  IF ~captured THEN FALSE ELSE open

\* handleMouseOver without clearCloseTimeout()
handleMouseOverNoClear ==
  /\ mounted
  /\ popupOpen' = TRUE
  /\ pointer' = "marker"
  /\ lastEvent' = "mouseover"
  /\ UNCHANGED <<mounted, isPinned, closeTimeoutRef, timers>>
  /\ UNCHANGED stopsVars

handleMouseOver ==
  /\ mounted
  /\ LET c == clearCloseTimeout(closeTimeoutRef, timers)
     IN  /\ closeTimeoutRef' = c.ref
         /\ timers' = c.tab
  /\ popupOpen' = TRUE
  /\ pointer' = "marker"
  /\ lastEvent' = "mouseover"
  /\ UNCHANGED <<mounted, isPinned>>
  /\ UNCHANGED stopsVars

\* handleMouseOut without the test of isPinned
handleMouseOutUnguarded ==
  /\ mounted
  /\ Len(timers) < MaxTimers
  /\ LET s == scheduleClose(closeTimeoutRef, timers, isPinned)
     IN  /\ closeTimeoutRef' = s.ref
         /\ timers' = s.tab
  /\ pointer' = "away"
  /\ lastEvent' = "mouseout"
  /\ UNCHANGED <<mounted, isPinned, popupOpen>>
  /\ UNCHANGED stopsVars

handleMouseOut ==
  /\ mounted
  /\ ~isPinned => Len(timers) < MaxTimers
  /\ IF ~isPinned
       THEN LET s == scheduleClose(closeTimeoutRef, timers, isPinned)
            IN  /\ closeTimeoutRef' = s.ref
                /\ timers' = s.tab
       ELSE UNCHANGED <<closeTimeoutRef, timers>>
  /\ pointer' = "away"
  /\ lastEvent' = "mouseout"
  /\ UNCHANGED <<mounted, isPinned, popupOpen>>
  /\ UNCHANGED stopsVars

\* handleClick without clearCloseTimeout()
handleClickNoClear ==
  /\ mounted
  /\ isPinned' = TRUE
  /\ popupOpen' = TRUE
  /\ lastEvent' = "click"
  /\ UNCHANGED <<mounted, pointer, closeTimeoutRef, timers>>
  /\ UNCHANGED stopsVars

handleClick ==
  /\ mounted
  /\ isPinned' = TRUE
  /\ LET c == clearCloseTimeout(closeTimeoutRef, timers)
     IN  /\ closeTimeoutRef' = c.ref
         /\ timers' = c.tab
  /\ popupOpen' = TRUE
  /\ lastEvent' = "click"
  /\ UNCHANGED <<mounted, pointer>>
  /\ UNCHANGED stopsVars

\* handleCloseClick closing through the debounce: scheduleClose() in place of closePopup()
handleCloseClickDebounced ==
  /\ mounted
  /\ isPinned
  /\ Len(timers) < MaxTimers
  /\ isPinned' = FALSE
  /\ LET s == scheduleClose(closeTimeoutRef, timers, FALSE)
     IN  /\ closeTimeoutRef' = s.ref
         /\ timers' = s.tab
  /\ lastEvent' = "closeclick"
  /\ UNCHANGED <<mounted, popupOpen, pointer>>
  /\ UNCHANGED stopsVars

\* the close button is rendered only while isPinned
handleCloseClick ==
  /\ mounted
  /\ isPinned
  /\ isPinned' = FALSE
  /\ popupOpen' = FALSE
  /\ lastEvent' = "closeclick"
  /\ UNCHANGED <<mounted, closeTimeoutRef, timers, pointer>>
  /\ UNCHANGED stopsVars

handlePopupMouseEnter ==
  /\ mounted
  /\ LET c == clearCloseTimeout(closeTimeoutRef, timers)
     IN  /\ closeTimeoutRef' = c.ref
         /\ timers' = c.tab
  /\ pointer' = "popup"
  /\ lastEvent' = "popupenter"
  /\ UNCHANGED <<mounted, isPinned, popupOpen>>
  /\ UNCHANGED stopsVars

handlePopupMouseLeave ==
  /\ mounted
  /\ ~isPinned => Len(timers) < MaxTimers
  /\ IF ~isPinned
       THEN LET s == scheduleClose(closeTimeoutRef, timers, isPinned)
            IN  /\ closeTimeoutRef' = s.ref
                /\ timers' = s.tab
       ELSE UNCHANGED <<closeTimeoutRef, timers>>
  /\ pointer' = "away"
  /\ lastEvent' = "popupleave"
  /\ UNCHANGED <<mounted, isPinned, popupOpen>>
  /\ UNCHANGED stopsVars

\* an unmount whose effect has no cleanup
unmountNoCleanup ==
  /\ mounted
  /\ mounted' = FALSE
  /\ lastEvent' = "unmount"
  /\ UNCHANGED <<isPinned, popupOpen, closeTimeoutRef, timers, pointer>>
  /\ UNCHANGED stopsVars

\* cleanup of the mount effect: clearTimeout on the ref, which is not reset
unmountCleanup ==
  /\ mounted
  /\ mounted' = FALSE
  /\ timers' = IF closeTimeoutRef # NoTimer
                 THEN clearTimeout(timers, closeTimeoutRef)
                 ELSE timers
  /\ lastEvent' = "unmount"
  /\ UNCHANGED <<isPinned, popupOpen, closeTimeoutRef, pointer>>
  /\ UNCHANGED stopsVars

\* time passes: every pending timer gets closer to its due time
Tick ==
  /\ \E i \in Pending : timers[i].remaining > 0
  /\ timers' = [i \in 1..Len(timers) |->
                  IF timers[i].status = "pending"
                    THEN [timers[i] EXCEPT !.remaining = Max0(@ - TickMs)]
                    ELSE timers[i]]
  /\ UNCHANGED <<mounted, isPinned, popupOpen, closeTimeoutRef, pointer, lastEvent>>
  /\ UNCHANGED stopsVars

\* the browser runs the callback of a due timer; markerRef.current is null
\* once the marker is unmounted
TimerFire(i) ==
  /\ i \in Pending
  /\ timers[i].remaining = 0
  /\ timers' = [timers EXCEPT ![i].status = "fired"]
  /\ popupOpen' = IF mounted THEN closeCallback(timers[i].isPinned, popupOpen) ELSE popupOpen
  /\ UNCHANGED <<mounted, isPinned, closeTimeoutRef, pointer, lastEvent>>
  /\ UNCHANGED stopsVars

\* ------------------------------------------------------------------------
\* Stop identifiers (utils/directions.ts); a stop id is a sequence of characters
\* ------------------------------------------------------------------------

Digits == {"0", "1", "2", "3", "4", "5", "6", "7", "8", "9"}

\* getDirectionFromStopId returns null
NoDirection == "null"

\* a TypeError thrown while reading a property of undefined
TypeError == "TypeError"

endsWith(stopId, c) == Len(stopId) > 0 /\ stopId[Len(stopId)] = c

\* getBaseStationId that knows the suffix N only
getBaseStationIdOnlyN(stopId) ==
  IF endsWith(stopId, "N")
    THEN SubSeq(stopId, 1, Len(stopId) - 1)
    ELSE stopId

getBaseStationId(stopId) ==
  IF endsWith(stopId, "N") \/ endsWith(stopId, "S")
    THEN SubSeq(stopId, 1, Len(stopId) - 1)
    ELSE stopId

getDirectionFromStopId(stopId) ==
  IF endsWith(stopId, "N") THEN "N"
  ELSE IF endsWith(stopId, "S") THEN "S"
  ELSE NoDirection

toUpperCase(c) ==
  CASE c = "l" -> "L"
    [] c = "g" -> "G"
    [] c = "b" -> "B"
    [] c = "m" -> "M"
    [] c = "n" -> "N"
    [] c = "s" -> "S"
    [] OTHER -> c

\* stopId.replace(/[NS]$/, ''): the pattern matches one N or S at the end of
\* the input and nowhere else
replaceTrailingNS(stopId) ==
  IF Len(stopId) > 0 /\ stopId[Len(stopId)] \in {"N", "S"}
    THEN SubSeq(stopId, 1, Len(stopId) - 1)
    ELSE stopId

\* getRouteFromStopId with the pattern /[NS]/: without the anchor the first N
\* or S of the stop id goes
getRouteFromStopIdUnanchored(stopId) ==
  LET first == CHOOSE k \in 1..(Len(stopId) + 1) :
                 /\ k <= Len(stopId) => stopId[k] \in {"N", "S"}
                 /\ \A j \in 1..(k - 1) : stopId[j] \notin {"N", "S"}
      base == SubSeq(stopId, 1, first - 1) \o SubSeq(stopId, first + 1, Len(stopId))
  IN  IF base = <<>> THEN TypeError
      ELSE IF base[1] \in Digits THEN base[1]
      ELSE toUpperCase(base[1])

\* base[0] of the empty string is undefined: the digit test fails on it and
\* undefined.toUpperCase() throws
getRouteFromStopId(stopId) ==
  LET base == replaceTrailingNS(stopId)
  IN  IF base = <<>> THEN TypeError
      ELSE IF base[1] \in Digits THEN base[1]
      ELSE toUpperCase(base[1])

\* ------------------------------------------------------------------------
\* Stop catalog and selection (hooks/useStops, StopsSelector)
\* ------------------------------------------------------------------------

\* Stop records the backend may return. lat and lon are offsets from the point
\* (40.7, -74.0) in units of 0.00000001 degrees. The two platforms of 1 Av share
\* their coordinates; Court Sq and Mill Ln lie within MIN_SEPARATION of them.
StopUniverse ==
  { [stop_id |-> <<"L", "1", "2", "N">>, stop_name |-> <<"1", "A", "v", "n", "o", "r", "t", "h">>, lat |-> 0, lon |-> 0, type |-> "train"],
    [stop_id |-> <<"L", "1", "2", "S">>, stop_name |-> <<"1", "A", "v", "s", "o", "u", "t", "h">>, lat |-> 0, lon |-> 0, type |-> "train"],
    [stop_id |-> <<"L", "1", "2">>, stop_name |-> <<"1", "A", "v">>, lat |-> 5000, lon |-> 5000, type |-> "train"],
    [stop_id |-> <<"G", "2", "S">>, stop_name |-> <<"C", "o", "u", "r", "t", "S", "q">>, lat |-> 0, lon |-> 10000, type |-> "train"],
    [stop_id |-> <<"B", "7">>, stop_name |-> <<"M", "a", "i", "n", "S", "t">>, lat |-> 4000000, lon |-> 4000000, type |-> "bus"],
    [stop_id |-> <<"M", "N">>, stop_name |-> <<"M", "i", "l", "l", "L", "n">>, lat |-> 0, lon |-> 0, type |-> "bus"],
    [stop_id |-> <<"L", "1", "2">>, stop_name |-> <<"1", "A", "v", "b", "u", "s">>, lat |-> 0, lon |-> 20000, type |-> "bus"] }

StopIds == {r.stop_id : r \in StopUniverse}

SeqsUpTo(S, n) == UNION {[1..k -> S] : k \in 0..n}

\* Stop.stop_id is unique across the catalog
UniqueIds(list) == \A i, j \in 1..Len(list) : i # j => list[i].stop_id # list[j].stop_id

Catalogs == {list \in SeqsUpTo(StopUniverse, MaxStops) : UniqueIds(list)}

\* characters of the arbitrary stop ids: a letter, a lower-case letter, a
\* digit and the two direction letters
IdAlphabet == {"L", "g", "1", "N", "S"}

\* catalogs of one train stop whose id is any string over IdAlphabet,
\* the empty string included
IdCatalogs ==
  { <<[stop_id |-> id, stop_name |-> <<"S", "t", "o", "p">>, lat |-> 0, lon |-> 0, type |-> "train"]>> :
      id \in SeqsUpTo(IdAlphabet, MaxIdLen) }

\* selections the backend may hold when the page loads
ServerSelections == {<<>>} \cup {<<id>> : id \in StopIds}

includes(list, x) == \E i \in 1..Len(list) : list[i] = x

\* list without its i-th element
removeAt(list, i) == SubSeq(list, 1, i - 1) \o SubSeq(list, i + 1, Len(list))

RECURSIVE filterOut(_, _)
\* list.filter((id) => id !== x)
filterOut(list, x) ==
  IF list = <<>> THEN <<>>
  ELSE IF Head(list) = x THEN filterOut(Tail(list), x)
  ELSE <<Head(list)>> \o filterOut(Tail(list), x)

\* ------------------------------------------------------------------------
\* Station grouping and selection state (StopsMapView)
\* ------------------------------------------------------------------------

Put(map, k, v) == [x \in DOMAIN map \cup {k} |-> IF x = k THEN v ELSE map[x]]

EmptyMap == [x \in {} |-> x]

\* the own keys of an object in creation order, after `k` is assigned
PutKey(order, k) == IF includes(order, k) THEN order ELSE Append(order, k)

\* one iteration of the loop of stationGroups that lacks the `continue` for
\* train stops without direction: the stop is stored under the key 'null'
groupStepNoSkip(acc, stop) ==
  IF acc.threw THEN acc
  ELSE IF stop.type # "train"
    THEN [acc EXCEPT !.groups =
            Put(@, stop.stop_id,
                [baseId |-> stop.stop_id, name |-> stop.stop_name, lat |-> stop.lat,
                 lon |-> stop.lon, route |-> "Bus", type |-> "bus", stops |-> EmptyMap]),
                     !.order = PutKey(@, stop.stop_id)]
  ELSE LET direction == getDirectionFromStopId(stop.stop_id)
           baseId    == getBaseStationId(stop.stop_id)
           route     == getRouteFromStopId(stop.stop_id)
           created   == IF baseId \in DOMAIN acc.groups
                          THEN acc.groups
                          ELSE Put(acc.groups, baseId,
                                   [baseId |-> baseId, name |-> stop.stop_name, lat |-> stop.lat,
                                    lon |-> stop.lon, route |-> route, type |-> "train",
                                    stops |-> EmptyMap])
       IN  IF route = TypeError
             THEN [acc EXCEPT !.threw = TRUE]
             ELSE [acc EXCEPT !.groups =
                     [created EXCEPT ![baseId].stops = Put(@, direction, stop)],
                              !.order = PutKey(@, baseId)]

\* one iteration of the loop of stationGroups that keys a train group by the
\* stop id instead of the base id: the platforms of a station are not merged
groupStepKeyedByStopId(acc, stop) ==
  IF acc.threw THEN acc
  ELSE IF stop.type # "train"
    THEN [acc EXCEPT !.groups =
            Put(@, stop.stop_id,
                [baseId |-> stop.stop_id, name |-> stop.stop_name, lat |-> stop.lat,
                 lon |-> stop.lon, route |-> "Bus", type |-> "bus", stops |-> EmptyMap]),
                     !.order = PutKey(@, stop.stop_id)]
  ELSE IF getDirectionFromStopId(stop.stop_id) = NoDirection THEN acc
  ELSE LET direction == getDirectionFromStopId(stop.stop_id)
           route     == getRouteFromStopId(stop.stop_id)
       IN  IF route = TypeError
             THEN [acc EXCEPT !.threw = TRUE]
             ELSE [acc EXCEPT !.groups =
                     Put(@, stop.stop_id,
                         [baseId |-> stop.stop_id, name |-> stop.stop_name, lat |-> stop.lat,
                          lon |-> stop.lon, route |-> route, type |-> "train",
                          stops |-> Put(EmptyMap, direction, stop)]),
                              !.order = PutKey(@, stop.stop_id)]

\* one iteration of the loop of stationGroups over `stop`
groupStep(acc, stop) ==
  IF acc.threw THEN acc
  ELSE IF stop.type # "train"
    THEN [acc EXCEPT !.groups =
            Put(@, stop.stop_id,
                [baseId |-> stop.stop_id, name |-> stop.stop_name, lat |-> stop.lat,
                 lon |-> stop.lon, route |-> "Bus", type |-> "bus", stops |-> EmptyMap]),
                     !.order = PutKey(@, stop.stop_id)]
  ELSE IF getDirectionFromStopId(stop.stop_id) = NoDirection THEN acc
  ELSE LET direction == getDirectionFromStopId(stop.stop_id)
           baseId    == getBaseStationId(stop.stop_id)
           route     == getRouteFromStopId(stop.stop_id)
           created   == IF baseId \in DOMAIN acc.groups
                          THEN acc.groups
                          ELSE Put(acc.groups, baseId,
                                   [baseId |-> baseId, name |-> stop.stop_name, lat |-> stop.lat,
                                    lon |-> stop.lon, route |-> route, type |-> "train",
                                    stops |-> EmptyMap])
       IN  IF route = TypeError
             THEN [acc EXCEPT !.threw = TRUE]
             ELSE [acc EXCEPT !.groups =
                     [created EXCEPT ![baseId].stops = Put(@, direction, stop)],
                              !.order = PutKey(@, baseId)]

RECURSIVE groupLoop(_, _)
groupLoop(acc, list) ==
  IF list = <<>> THEN acc ELSE groupLoop(groupStep(acc, Head(list)), Tail(list))

\* the loop of the useMemo of stationGroups: groups is the object `groups`
\* (baseId |-> StationGroup), order its keys in creation order, threw tells
\* that the loop ended in a TypeError
stationGroups(list) ==
  groupLoop([threw |-> FALSE, groups |-> EmptyMap, order |-> <<>>], list)

\* ------------------------------------------------------------------------
\* Object.values(groups): property order of a JavaScript object
\* ------------------------------------------------------------------------

DigitSeq == <<"0", "1", "2", "3", "4", "5", "6", "7", "8", "9">>

digitValue(c) == (CHOOSE i \in 1..Len(DigitSeq) : DigitSeq[i] = c) - 1

RECURSIVE numericValue(_)
numericValue(key) ==
  IF key = <<>> THEN 0
  ELSE 10 * numericValue(SubSeq(key, 1, Len(key) - 1)) + digitValue(key[Len(key)])

\* an array index: the canonical decimal form of an integer below 2^32 - 1
\* (every canonical key of at most nine digits is one; the keys of the model
\* are shorter than that)
isArrayIndex(key) ==
  /\ Len(key) \in 1..9
  /\ \A i \in 1..Len(key) : key[i] \in Digits
  /\ (key[1] # "0" \/ Len(key) = 1)

RECURSIVE ascendingIndices(_)
ascendingIndices(keys) ==
  IF keys = {} THEN <<>>
  ELSE LET m == CHOOSE k \in keys : \A j \in keys : numericValue(k) <= numericValue(j)
       IN  <<m>> \o ascendingIndices(keys \ {m})

RECURSIVE nonIndices(_)
nonIndices(order) ==
  IF order = <<>> THEN <<>>
  ELSE IF isArrayIndex(Head(order)) THEN nonIndices(Tail(order))
  ELSE <<Head(order)>> \o nonIndices(Tail(order))

\* array indices in ascending numeric order, then the other keys in creation order
ObjectKeys(order) ==
  ascendingIndices({k \in {order[i] : i \in 1..Len(order)} : isArrayIndex(k)})
    \o nonIndices(order)

ObjectValues(obj) == [i \in 1..Len(obj.order) |-> obj.groups[ObjectKeys(obj.order)[i]]]

\* ------------------------------------------------------------------------
\* Marker layout (StopsMapView, useMemo of adjustedPositions)
\* ------------------------------------------------------------------------

\* 0.00025 degrees, in units of 0.00000001 degrees
MIN_SEPARATION == 25000

maxAttempts == 20

LowerCase == <<"a", "b", "c", "d", "e", "f", "g", "h", "i", "j", "k", "l", "m",
               "n", "o", "p", "q", "r", "s", "t", "u", "v", "w", "x", "y", "z">>

UpperCase == <<"A", "B", "C", "D", "E", "F", "G", "H", "I", "J", "K", "L", "M",
               "N", "O", "P", "Q", "R", "S", "T", "U", "V", "W", "X", "Y", "Z">>

isUpperCase(c) == \E i \in 1..Len(UpperCase) : UpperCase[i] = c

\* collation of the default locale over digits and letters: a digit sorts before
\* a letter, letters sort alphabetically whatever their case
primaryWeight(c) ==
  IF c \in Digits THEN digitValue(c)
  ELSE IF isUpperCase(c) THEN 10 + (CHOOSE i \in 1..Len(UpperCase) : UpperCase[i] = c)
  ELSE 10 + (CHOOSE i \in 1..Len(LowerCase) : LowerCase[i] = c)

RECURSIVE comparePrimary(_, _)
comparePrimary(a, b) ==
  IF a = <<>> /\ b = <<>> THEN 0
  ELSE IF a = <<>> THEN -1
  ELSE IF b = <<>> THEN 1
  ELSE IF primaryWeight(Head(a)) < primaryWeight(Head(b)) THEN -1
  ELSE IF primaryWeight(Head(a)) > primaryWeight(Head(b)) THEN 1
  ELSE comparePrimary(Tail(a), Tail(b))

\* strings that differ in case only: at the first difference the lower-case
\* letter sorts first
RECURSIVE compareCase(_, _)
compareCase(a, b) ==
  IF a = <<>> \/ b = <<>> THEN 0
  ELSE IF Head(a) = Head(b) THEN compareCase(Tail(a), Tail(b))
  ELSE IF isUpperCase(Head(b)) THEN -1
  ELSE 1

\* a.localeCompare(b)
localeCompare(a, b) ==
  IF comparePrimary(a, b) # 0 THEN comparePrimary(a, b) ELSE compareCase(a, b)

RECURSIVE insertByBaseId(_, _)
\* `group` goes behind every element that does not sort after it
insertByBaseId(sorted, group) ==
  IF sorted = <<>> THEN <<group>>
  ELSE IF localeCompare(Head(sorted).baseId, group.baseId) <= 0
    THEN <<Head(sorted)>> \o insertByBaseId(Tail(sorted), group)
  ELSE <<group>> \o sorted

RECURSIVE sortLoop(_, _)
sortLoop(sorted, groups) ==
  IF groups = <<>> THEN sorted
  ELSE sortLoop(insertByBaseId(sorted, Head(groups)), Tail(groups))

\* the groups in the order they arrive, unsorted
sortByBaseIdSkipped(groups) == groups

\* [...stationGroups].sort((a, b) => a.baseId.localeCompare(b.baseId));
\* Array.prototype.sort is stable
sortByBaseId(groups) == sortLoop(<<>>, groups)

Abs(x) == IF x < 0 THEN -x ELSE x

\* 1000 * cos and 1000 * sin of attempts * 137.5 degrees, attempts = 0..19
CosMilli == <<1000, -737, 87, 609, -985, 843, -259, -462, 940, -924,
              423, 301, -866, 976, -574, -131, 766, -999, 707, -44>>

SinMilli == <<0, 676, -996, 793, -174, -537, 966, -887, 342, 383,
              -906, 954, -500, -216, 819, -991, 643, 44, -707, 999>>

\* a radius that grows by half of MIN_SEPARATION with every attempt
radiusPerAttempt(attempts) == (MIN_SEPARATION * (2 + attempts)) \div 2

\* MIN_SEPARATION * (1 + Math.floor(attempts / 8) * 0.5)
radius(attempts) == (MIN_SEPARATION * (2 + (attempts \div 8))) \div 2

\* radius * milli / 1000, rounded towards zero
scaled(r, milli) == IF milli < 0 THEN -((r * (-milli)) \div 1000) ELSE (r * milli) \div 1000

offsetLat(attempts) == scaled(radius(attempts), CosMilli[attempts + 1])

offsetLon(attempts) == scaled(radius(attempts), SinMilli[attempts + 1])

\* the inner for loop: some recorded position lies within MIN_SEPARATION of
\* the candidate in latitude and in longitude
hasCollision(positions, lat, lon) ==
  \E existingId \in DOMAIN positions :
    /\ Abs(lat - positions[existingId][1]) < MIN_SEPARATION
    /\ Abs(lon - positions[existingId][2]) < MIN_SEPARATION

\* the while loop that takes the first offset candidate without testing it
tryPositionOnce(group, positions, lat, lon, attempts) ==
  IF attempts < maxAttempts /\ hasCollision(positions, lat, lon)
    THEN [lat |-> group.lat + offsetLat(attempts), lon |-> group.lon + offsetLon(attempts),
          attempts |-> attempts + 1]
    ELSE [lat |-> lat, lon |-> lon, attempts |-> attempts]

RECURSIVE tryPositionAccumulating(_, _, _, _, _)
\* the while loop whose next candidate is the last candidate plus the offset
tryPositionAccumulating(group, positions, lat, lon, attempts) ==
  IF attempts >= maxAttempts THEN [lat |-> lat, lon |-> lon, attempts |-> attempts]
  ELSE IF hasCollision(positions, lat, lon)
    THEN tryPositionAccumulating(group, positions, lat + offsetLat(attempts),
                                 lon + offsetLon(attempts), attempts + 1)
  ELSE [lat |-> lat, lon |-> lon, attempts |-> attempts]

RECURSIVE tryPosition(_, _, _, _, _)
\* the while loop from the round that tests the candidate (lat, lon): the
\* result is the accepted candidate and the value of `attempts` at the exit
tryPosition(group, positions, lat, lon, attempts) ==
  IF attempts >= maxAttempts THEN [lat |-> lat, lon |-> lon, attempts |-> attempts]
  ELSE IF hasCollision(positions, lat, lon)
    THEN tryPosition(group, positions, group.lat + offsetLat(attempts),
                     group.lon + offsetLon(attempts), attempts + 1)
  ELSE [lat |-> lat, lon |-> lon, attempts |-> attempts]

\* the body of the outer loop that records no position for a group whose
\* attempts ran out
layoutStepDropExhausted(acc, group) ==
  LET placed == tryPosition(group, acc.positions, group.lat, group.lon, 0)
  IN  IF placed.attempts >= maxAttempts
        THEN [acc EXCEPT !.attempts = Put(@, group.baseId, placed.attempts)]
        ELSE [positions |-> Put(acc.positions, group.baseId, <<placed.lat, placed.lon>>),
              attempts  |-> Put(acc.attempts, group.baseId, placed.attempts)]

\* the body of the outer loop for one group: positions[group.baseId] = ...;
\* attempts keeps the final value of the local counter
layoutStep(acc, group) ==
  LET placed == tryPosition(group, acc.positions, group.lat, group.lon, 0)
  IN  [positions |-> Put(acc.positions, group.baseId, <<placed.lat, placed.lon>>),
       attempts  |-> Put(acc.attempts, group.baseId, placed.attempts)]

RECURSIVE layoutLoop(_, _)
layoutLoop(acc, sortedGroups) ==
  IF sortedGroups = <<>> THEN acc
  ELSE layoutLoop(layoutStep(acc, Head(sortedGroups)), Tail(sortedGroups))

layoutRun(groups) ==
  layoutLoop([positions |-> EmptyMap, attempts |-> EmptyMap], sortByBaseId(groups))

\* the value of the memo: baseId |-> <<lat, lon>>
adjustedPositions(groups) == layoutRun(groups).positions

\* the value the counter `attempts` had when the loop of each group ended
layoutAttempts(groups) == layoutRun(groups).attempts

\* getSelectionState with the results 'full' and 'partial' exchanged
getSelectionStateSwapped(group, selected) ==
  IF group.type = "bus"
    THEN IF includes(selected, group.baseId) THEN "full" ELSE "none"
  ELSE LET hasN == "N" \in DOMAIN group.stops
           hasS == "S" \in DOMAIN group.stops
           nSelected == hasN /\ includes(selected, group.stops["N"].stop_id)
           sSelected == hasS /\ includes(selected, group.stops["S"].stop_id)
       IN  IF hasN /\ hasS /\ nSelected /\ sSelected THEN "partial"
           ELSE IF nSelected \/ sSelected THEN "full"
           ELSE "none"

\* getSelectionState without the branch for bus groups
getSelectionStateNoBus(group, selected) ==
  LET hasN == "N" \in DOMAIN group.stops
      hasS == "S" \in DOMAIN group.stops
      nSelected == hasN /\ includes(selected, group.stops["N"].stop_id)
      sSelected == hasS /\ includes(selected, group.stops["S"].stop_id)
  IN  IF hasN /\ hasS /\ nSelected /\ sSelected THEN "full"
      ELSE IF nSelected \/ sSelected THEN "partial"
      ELSE "none"

getSelectionState(group, selected) ==
  IF group.type = "bus"
    THEN IF includes(selected, group.baseId) THEN "full" ELSE "none"
  ELSE LET hasN == "N" \in DOMAIN group.stops
           hasS == "S" \in DOMAIN group.stops
           nSelected == hasN /\ includes(selected, group.stops["N"].stop_id)
           sSelected == hasS /\ includes(selected, group.stops["S"].stop_id)
       IN  IF hasN /\ hasS /\ nSelected /\ sSelected THEN "full"
           ELSE IF nSelected \/ sSelected THEN "partial"
           ELSE "none"

\* ------------------------------------------------------------------------
\* The stop selector and its map view (StopsSelector, StopsMapView)
\* ------------------------------------------------------------------------

\* the map view is not rendered (viewMode is 'list')
NotMounted == [status |-> "list", groups |-> <<>>, positions |-> <<>>]

\* a render of the map view threw: React has unmounted the application
Crashed == [status |-> "crashed", groups |-> <<>>, positions |-> <<>>]

RECURSIVE filteredStops(_, _, _)
\* stops.filter(...) by transit type
filteredStops(list, trains, buses) ==
  IF list = <<>> THEN <<>>
  ELSE IF (Head(list).type = "train" /\ trains) \/ (Head(list).type = "bus" /\ buses)
    THEN <<Head(list)>> \o filteredStops(Tail(list), trains, buses)
  ELSE filteredStops(Tail(list), trains, buses)

\* a render of StopsMapView over the filtered stops: its memos stationGroups
\* (Object.values of the groups) and adjustedPositions
renderMapView(list, trains, buses) ==
  LET obj == stationGroups(filteredStops(list, trains, buses))
  IN  IF obj.threw THEN Crashed
      ELSE [status |-> "map", groups |-> ObjectValues(obj),
            positions |-> adjustedPositions(ObjectValues(obj))]

\* the memos after a render caused by new props, if the view is rendered
rerender(view, list, trains, buses) ==
  IF view.status = "map" THEN renderMapView(list, trains, buses) ELSE view

\* newSelected of a toggleStop that appends the id whether it is selected or not
newSelectedAppendOnly(selected, stopId) == Append(selected, stopId)

\* const newSelected = selectedStopIds.includes(stopId) ? ... : ... in toggleStop
newSelected(selected, stopId) ==
  IF includes(selected, stopId)
    THEN filterOut(selected, stopId)
    ELSE Append(selected, stopId)

\* useStops: error is null
NoError == "null"

\* StopsSelector: saveStatus is null
NoStatus == "null"

\* a UserLocation | null that is null
NoLocation == [set |-> FALSE, lat |-> 0, lon |-> 0]

\* localStorage.getItem returns null: the item is absent
NoItem == [present |-> FALSE, lat |-> 0, lon |-> 0]

\* ------------------------------------------------------------------------
\* Distances and the list view (utils/geo, StopsListView, hooks/useLocation)
\* ------------------------------------------------------------------------

\* positions the browser may report, in the units of StopUniverse
GeoFixes == {[set |-> TRUE, lat |-> 0, lon |-> 15000]}

\* positions the user marker may be dragged to
DragTargets == {[set |-> TRUE, lat |-> 0, lon |-> 0],
                [set |-> TRUE, lat |-> 4000000, lon |-> 4000000]}

\* const effectiveLocation = manualLocation ?? browserLocation;
effectiveLocation(manual, browser) == IF manual.set THEN manual ELSE browser

\* the haversine distance in millionths of a mile, rounded to the nearest
\* integer, between the positions above and the coordinates of the catalog
\* (R = 3959); each row is <<lat1, lon1, lat2, lon2, distance>>
DistanceTable ==
  { <<0, 15000, 0, 0, 7858>>, <<0, 15000, 5000, 5000, 6275>>,
    <<0, 15000, 0, 10000, 2619>>, <<0, 15000, 0, 20000, 2619>>,
    <<0, 15000, 4000000, 4000000, 3463296>>,
    <<0, 0, 0, 0, 0>>, <<0, 0, 5000, 5000, 4336>>,
    <<0, 0, 0, 10000, 5239>>, <<0, 0, 0, 20000, 10477>>,
    <<0, 0, 4000000, 4000000, 3468035>>,
    <<4000000, 4000000, 0, 0, 3468035>>, <<4000000, 4000000, 5000, 5000, 3463700>>,
    <<4000000, 4000000, 0, 10000, 3464874>>, <<4000000, 4000000, 0, 20000, 3461719>>,
    <<4000000, 4000000, 4000000, 4000000, 0>> }

calculateDistance(lat1, lon1, lat2, lon2) ==
  (CHOOSE row \in DistanceTable :
     row[1] = lat1 /\ row[2] = lon1 /\ row[3] = lat2 /\ row[4] = lon2)[5]

\* { ...stop, distance: d }
withDistance(stop, d) ==
  [x \in DOMAIN stop \cup {"distance"} |-> IF x = "distance" THEN d ELSE stop[x]]

\* stop.distance ?? 0
distanceOrZero(stop) == IF "distance" \in DOMAIN stop THEN stop.distance ELSE 0

RECURSIVE insertByName(_, _)
\* `stop` goes behind every element that does not sort after it
insertByName(sorted, stop) ==
  IF sorted = <<>> THEN <<stop>>
  ELSE IF localeCompare(Head(sorted).stop_name, stop.stop_name) <= 0
    THEN <<Head(sorted)>> \o insertByName(Tail(sorted), stop)
  ELSE <<stop>> \o sorted

RECURSIVE sortByName(_, _)
sortByName(sorted, list) ==
  IF list = <<>> THEN sorted
  ELSE sortByName(insertByName(sorted, Head(list)), Tail(list))

RECURSIVE insertByDistance(_, _)
insertByDistance(sorted, stop) ==
  IF sorted = <<>> THEN <<stop>>
  ELSE IF distanceOrZero(Head(sorted)) - distanceOrZero(stop) <= 0
    THEN <<Head(sorted)>> \o insertByDistance(Tail(sorted), stop)
  ELSE <<stop>> \o sorted

RECURSIVE sortByDistance(_, _)
sortByDistance(sorted, list) ==
  IF list = <<>> THEN sorted
  ELSE sortByDistance(insertByDistance(sorted, Head(list)), Tail(list))

\* sortStopsByDistance that orders equal keys by last occurrence first
sortStopsByDistanceUnstable(list, userLocation) ==
  LET reversed == [i \in 1..Len(list) |-> list[Len(list) + 1 - i]]
  IN  IF ~userLocation.set
        THEN [result |-> sortByName(<<>>, reversed), stops |-> list]
      ELSE LET mapped == [i \in 1..Len(list) |->
                            withDistance(reversed[i],
                                         calculateDistance(userLocation.lat, userLocation.lon,
                                                           reversed[i].lat, reversed[i].lon))]
           IN  [result |-> sortByDistance(<<>>, mapped), stops |-> list]

\* sortStopsByDistance(stops, userLocation): `result` is the array returned,
\* `stops` the array passed in as it is after the call. Array.prototype.sort
\* is stable; [...stops] and stops.map(...) are new arrays
sortStopsByDistance(list, userLocation) ==
  IF ~userLocation.set
    THEN [result |-> sortByName(<<>>, list), stops |-> list]
  ELSE LET mapped == [i \in 1..Len(list) |->
                        withDistance(list[i],
                                     calculateDistance(userLocation.lat, userLocation.lon,
                                                       list[i].lat, list[i].lon))]
       IN  [result |-> sortByDistance(<<>>, mapped), stops |-> list]

RECURSIVE toString(_)
\* the decimal digits of a natural number
toString(n) ==
  IF n < 10 THEN <<DigitSeq[n + 1]>>
  ELSE toString(n \div 10) \o <<DigitSeq[(n % 10) + 1]>>

\* distances with five hundredths of a mile after the tenths whose double
\* lies below the decimal: toFixed(1) rounds them down
TiesBelow == {150000, 350000}

\* Math.round(miles * 5280), miles in millionths of a mile
roundFeet(m) == (m * 5280 + 500000) \div 1000000

\* miles.toFixed(1) in tenths of a mile
toFixedTenths(m) == IF m \in TiesBelow THEN m \div 100000 ELSE (m + 50000) \div 100000

\* formatDistance that tests miles <= 0.1
formatDistanceInclusive(m) ==
  IF m <= 100000 THEN toString(roundFeet(m)) \o <<" ", "f", "t">>
  ELSE toString(toFixedTenths(m) \div 10) \o <<".">> \o toString(toFixedTenths(m) % 10)
         \o <<" ", "m", "i">>

\* formatDistance(miles), miles in millionths of a mile
formatDistance(m) ==
  IF m < 100000 THEN toString(roundFeet(m)) \o <<" ", "f", "t">>
  ELSE toString(toFixedTenths(m) \div 10) \o <<".">> \o toString(toFixedTenths(m) % 10)
         \o <<" ", "m", "i">>

\* StopsListView is not rendered
NoList == [mounted |-> FALSE, sorted |-> <<>>, stops |-> <<>>]

\* a render of StopsListView over the filtered stops with an empty search
\* query: its memo filteredStops, and the stops prop after the memo ran
renderListView(list, trains, buses, location) ==
  LET call == sortStopsByDistance(filteredStops(list, trains, buses), location)
  IN  [mounted |-> TRUE, sorted |-> call.result, stops |-> call.stops]

\* the list view after a render of StopsSelector
listAfter(isLoading, view, list, trains, buses, location) ==
  IF ~isLoading /\ view.status = "list"
    THEN renderListView(list, trains, buses, location)
    ELSE NoList

\* the render of StopsSelector that follows a state change: the list view is
\* rendered from the new state
RenderList ==
  listView' = listAfter(loading', mapView', stops', showTrains', showBuses',
                        effectiveLocation(manualLocation', browserLocation'))

\* fetchStops: setStops(data) with data drawn from `catalogs`, or setError
\* when the fetch fails
fetchStopsFrom(catalogs) ==
  /\ ~stopsFetched
  /\ mapView.status # "crashed"
  /\ stopsFetched' = TRUE
  /\ \/ \E data \in catalogs :
          /\ stops' = data
          /\ mapView' = rerender(mapView, data, showTrains, showBuses)
          /\ UNCHANGED error
     \/ /\ error' = "Failed to fetch stops"
        /\ UNCHANGED <<stops, mapView>>
  /\ UNCHANGED <<selectedStopIds, loading, showTrains, showBuses>>
  /\ UNCHANGED <<saveRequests, savesIssued, saveStatus, statusTimers, locVars>>
  /\ UNCHANGED popupVars
  /\ RenderList

fetchStops == fetchStopsFrom(Catalogs)

\* fetchSelectedStops: setSelectedStopIds(data.selected_stops || []), then
\* setLoading(false); a failed fetch keeps the empty selection
fetchSelectedStops ==
  /\ loading
  /\ loading' = FALSE
  /\ \E data \in ServerSelections : selectedStopIds' = data
  /\ UNCHANGED <<stops, stopsFetched, showTrains, showBuses, mapView>>
  /\ UNCHANGED <<saveVars, locVars>>
  /\ UNCHANGED popupVars
  /\ RenderList

\* toggleStop that replaces the selection by the stop it is given
toggleStopReplacing(stopId) ==
  /\ ~loading
  /\ mapView.status # "crashed"
  /\ selectedStopIds' = IF includes(selectedStopIds, stopId) THEN <<>> ELSE <<stopId>>
  /\ UNCHANGED <<stops, loading, stopsFetched, showTrains, showBuses, mapView>>
  /\ UNCHANGED <<saveVars, locVars>>
  /\ UNCHANGED popupVars
  /\ UNCHANGED listView

\* toggleStop(stopId), called by the list, the selected panel and the map
\* popups for the stop ids of the catalog once the selector is rendered
toggleStop(stopId) ==
  /\ ~loading
  /\ mapView.status # "crashed"
  /\ selectedStopIds' = newSelected(selectedStopIds, stopId)
  /\ UNCHANGED <<stops, loading, stopsFetched, showTrains, showBuses, mapView>>
  /\ UNCHANGED <<saveVars, locVars>>
  /\ UNCHANGED popupVars
  /\ UNCHANGED listView

\* the stop ids the popup of a group hands to onToggleStop: the checkboxes of
\* the variants of a train group, the button of a bus group
popupToggleIds(group) ==
  IF group.type = "train"
    THEN {group.stops[d].stop_id : d \in DOMAIN group.stops \cap {"N", "S"}}
  ELSE IF group.type = "bus" THEN {group.baseId}
  ELSE {}

\* a checkbox or the button in the popup of the k-th marker of the map
popupToggle(k) ==
  /\ mapView.status = "map"
  /\ k \in 1..Len(mapView.groups)
  /\ \E stopId \in popupToggleIds(mapView.groups[k]) : toggleStop(stopId)


\* the view toggle buttons: setViewMode(mode); the buttons exist once the
\* selection is loaded
setViewMode(mode) ==
  /\ ~loading
  /\ mapView.status # "crashed"
  /\ mapView' = IF mode = "list" THEN NotMounted
                ELSE renderMapView(stops, showTrains, showBuses)
  /\ UNCHANGED <<stops, selectedStopIds, loading, stopsFetched, showTrains, showBuses>>
  /\ UNCHANGED <<saveVars, locVars>>
  /\ UNCHANGED popupVars
  /\ RenderList

\* the Trains checkbox: setShowTrains(e.target.checked)
setShowTrains(checked) ==
  /\ ~loading
  /\ mapView.status # "crashed"
  /\ checked # showTrains
  /\ showTrains' = checked
  /\ mapView' = rerender(mapView, stops, checked, showBuses)
  /\ UNCHANGED <<stops, selectedStopIds, loading, stopsFetched, showBuses>>
  /\ UNCHANGED <<saveVars, locVars>>
  /\ UNCHANGED popupVars
  /\ RenderList

\* the Buses checkbox: setShowBuses(e.target.checked)
setShowBuses(checked) ==
  /\ ~loading
  /\ mapView.status # "crashed"
  /\ checked # showBuses
  /\ showBuses' = checked
  /\ mapView' = rerender(mapView, stops, showTrains, checked)
  /\ UNCHANGED <<stops, selectedStopIds, loading, stopsFetched, showTrains>>
  /\ UNCHANGED <<saveVars, locVars>>
  /\ UNCHANGED popupVars
  /\ RenderList

\* ------------------------------------------------------------------------
\* The user's location (hooks/useLocation, the user marker of StopsMapView)
\* ------------------------------------------------------------------------

\* JSON.stringify(location), stored under MANUAL_LOCATION_KEY
JSONstringify(location) == [present |-> TRUE, lat |-> location.lat, lon |-> location.lon]

\* JSON.parse(stored): an object whose lat and lon are numbers
JSONparse(stored) == [set |-> TRUE, lat |-> stored.lat, lon |-> stored.lon]

\* useGeolocation reports a position of the browser
geolocationFix ==
  /\ ~browserLocation.set
  /\ \E fix \in GeoFixes : browserLocation' = fix
  /\ UNCHANGED <<stops, selectedStopIds, loading, stopsFetched, showTrains, showBuses, mapView>>
  /\ UNCHANGED <<manualLocation, initialized, localStorage, storageThrew, session>>
  /\ UNCHANGED saveVars
  /\ UNCHANGED popupVars
  /\ RenderList

\* the mount effect of useLocation: the stored location becomes the manual
\* location; an exception of localStorage.getItem is ignored
mountEffect ==
  /\ ~initialized
  /\ initialized' = TRUE
  /\ \/ /\ manualLocation' = IF localStorage.present THEN JSONparse(localStorage)
                             ELSE manualLocation
        /\ UNCHANGED storageThrew
     \/ /\ storageThrew' = TRUE
        /\ UNCHANGED manualLocation
  /\ UNCHANGED <<stops, selectedStopIds, loading, stopsFetched, showTrains, showBuses, mapView>>
  /\ UNCHANGED <<browserLocation, localStorage, session>>
  /\ UNCHANGED saveVars
  /\ UNCHANGED popupVars
  /\ RenderList

\* clearManualLocation that leaves the stored item in place
clearManualLocationKeepItem ==
  /\ mapView.status = "map"
  /\ manualLocation.set
  /\ manualLocation' = NoLocation
  /\ UNCHANGED <<localStorage, storageThrew>>
  /\ UNCHANGED <<stops, selectedStopIds, loading, stopsFetched, showTrains, showBuses, mapView>>
  /\ UNCHANGED <<browserLocation, initialized, session>>
  /\ UNCHANGED saveVars
  /\ UNCHANGED popupVars
  /\ RenderList

\* the user marker is dropped at `target`: handleMarkerDragEnd calls
\* setManualLocation; an exception of localStorage.setItem is ignored. The
\* marker exists in the map view when there is an effective location
handleMarkerDragEnd(target) ==
  /\ mapView.status = "map"
  /\ initialized
  /\ effectiveLocation(manualLocation, browserLocation).set
  /\ manualLocation' = target
  /\ \/ /\ localStorage' = JSONstringify(target)
        /\ UNCHANGED storageThrew
     \/ /\ storageThrew' = TRUE
        /\ UNCHANGED localStorage
  /\ UNCHANGED <<stops, selectedStopIds, loading, stopsFetched, showTrains, showBuses, mapView>>
  /\ UNCHANGED <<browserLocation, initialized, session>>
  /\ UNCHANGED saveVars
  /\ UNCHANGED popupVars
  /\ RenderList

\* the button 'Reset to GPS', shown in the map view while there is a manual
\* location: clearManualLocation; an exception of localStorage.removeItem is
\* ignored
clearManualLocation ==
  /\ mapView.status = "map"
  /\ manualLocation.set
  /\ manualLocation' = NoLocation
  /\ \/ /\ localStorage' = NoItem
        /\ UNCHANGED storageThrew
     \/ /\ storageThrew' = TRUE
        /\ UNCHANGED localStorage
  /\ UNCHANGED <<stops, selectedStopIds, loading, stopsFetched, showTrains, showBuses, mapView>>
  /\ UNCHANGED <<browserLocation, initialized, session>>
  /\ UNCHANGED saveVars
  /\ UNCHANGED popupVars
  /\ RenderList

\* ------------------------------------------------------------------------
\* Saving the selection (StopsSelector.handleSave, useStops.saveSelectedStops)
\* ------------------------------------------------------------------------

\* handleSave up to its await: setSaveStatus('Saving...') and the POST of the
\* selectedStopIds of this render
handleSave ==
  /\ ~loading
  /\ mapView.status # "crashed"
  /\ savesIssued < MaxSaves
  /\ savesIssued' = savesIssued + 1
  /\ saveStatus' = "Saving..."
  /\ saveRequests' = Append(saveRequests, selectedStopIds)
  /\ UNCHANGED <<stops, selectedStopIds, loading, stopsFetched, showTrains, showBuses, mapView>>
  /\ UNCHANGED <<error, statusTimers, locVars>>
  /\ UNCHANGED popupVars
  /\ UNCHANGED listView

\* the POST i answers ok: setSelectedStopIds(stopIds) with the ids that were
\* posted, return true; handleSave goes on with 'Saved!' and the 2 s timer
saveResolved(i) ==
  /\ i \in 1..Len(saveRequests)
  /\ saveRequests' = removeAt(saveRequests, i)
  /\ selectedStopIds' = saveRequests[i]
  /\ saveStatus' = "Saved!"
  /\ statusTimers' = statusTimers + 1
  /\ UNCHANGED <<stops, loading, stopsFetched, showTrains, showBuses, mapView>>
  /\ UNCHANGED <<error, savesIssued, locVars>>
  /\ UNCHANGED popupVars
  /\ UNCHANGED listView

\* the POST i fails or answers not ok: setError, return false; handleSave
\* goes on with 'Error saving' and the 2 s timer
saveRejected(i) ==
  /\ i \in 1..Len(saveRequests)
  /\ saveRequests' = removeAt(saveRequests, i)
  /\ error' = "Failed to save stops"
  /\ saveStatus' = "Error saving"
  /\ statusTimers' = statusTimers + 1
  /\ UNCHANGED <<stops, selectedStopIds, loading, stopsFetched, showTrains, showBuses, mapView>>
  /\ UNCHANGED <<savesIssued, locVars>>
  /\ UNCHANGED popupVars
  /\ UNCHANGED listView

\* a 2 s timer of handleSave fires: setSaveStatus(null)
clearSaveStatus ==
  /\ statusTimers > 0
  /\ statusTimers' = statusTimers - 1
  /\ saveStatus' = NoStatus
  /\ UNCHANGED <<stops, selectedStopIds, loading, stopsFetched, showTrains, showBuses, mapView>>
  /\ UNCHANGED <<error, saveRequests, savesIssued, locVars>>
  /\ UNCHANGED popupVars
  /\ UNCHANGED listView

Init ==
  /\ mounted = TRUE
  /\ isPinned = FALSE
  /\ popupOpen = FALSE
  /\ closeTimeoutRef = NoTimer
  /\ timers = <<>>
  /\ pointer = "away"
  /\ lastEvent = "none"
  /\ stops = <<>>
  /\ selectedStopIds = <<>>
  /\ loading = TRUE
  /\ stopsFetched = FALSE
  /\ showTrains = TRUE
  /\ showBuses = FALSE
  /\ mapView = NotMounted
  /\ listView = NoList
  /\ error = NoError
  /\ saveRequests = <<>>
  /\ savesIssued = 0
  /\ saveStatus = NoStatus
  /\ statusTimers = 0
  /\ browserLocation = NoLocation
  /\ manualLocation = NoLocation
  /\ initialized = FALSE
  /\ localStorage = NoItem
  /\ storageThrew = FALSE
  /\ session = 1

\* the page is loaded again: every component starts from its initial state,
\* the items of localStorage stay
reload ==
  /\ session < MaxSessions
  /\ session' = session + 1
  /\ mounted' = TRUE
  /\ isPinned' = FALSE
  /\ popupOpen' = FALSE
  /\ closeTimeoutRef' = NoTimer
  /\ timers' = <<>>
  /\ pointer' = "away"
  /\ lastEvent' = "none"
  /\ stops' = <<>>
  /\ selectedStopIds' = <<>>
  /\ loading' = TRUE
  /\ stopsFetched' = FALSE
  /\ showTrains' = TRUE
  /\ showBuses' = FALSE
  /\ mapView' = NotMounted
  /\ listView' = NoList
  /\ error' = NoError
  /\ saveRequests' = <<>>
  /\ savesIssued' = 0
  /\ saveStatus' = NoStatus
  /\ statusTimers' = 0
  /\ browserLocation' = NoLocation
  /\ manualLocation' = NoLocation
  /\ initialized' = FALSE
  /\ UNCHANGED <<localStorage, storageThrew>>

Next ==
  \/ handleMouseOver
  \/ handleMouseOut
  \/ handleClick
  \/ handleCloseClick
  \/ handlePopupMouseEnter
  \/ handlePopupMouseLeave
  \/ unmountCleanup
  \/ Tick
  \/ \E i \in 1..MaxTimers : TimerFire(i)

Spec == Init /\ [][Next]_vars

\* A marker that stays mounted under a pointer that enters an element before it
\* leaves it (the popup body exists only while the popup is open), with time
\* passing and the event loop running every due timer.
LiveNext ==
  \/ pointer # "marker" /\ handleMouseOver
  \/ pointer = "marker" /\ handleMouseOut
  \/ handleClick
  \/ popupOpen /\ handleCloseClick
  \/ popupOpen /\ pointer # "popup" /\ handlePopupMouseEnter
  \/ popupOpen /\ pointer = "popup" /\ handlePopupMouseLeave
  \/ Tick
  \/ \E i \in 1..MaxTimers : TimerFire(i)

LiveSpec ==
  /\ Init
  /\ [][LiveNext]_vars
  /\ WF_vars(Tick)
  /\ WF_vars(\E i \in 1..MaxTimers : TimerFire(i))

\* The stop selector: both fetches of useStops complete in either order, then
\* the user toggles stops of the catalog.
SelNext ==
  \/ fetchStops
  \/ fetchSelectedStops
  \/ \E i \in 1..Len(stops) : toggleStop(stops[i].stop_id)

SelSpec == Init /\ [][SelNext]_vars

\* the catalogs of at most two stops
SaveCatalogs == {list \in Catalogs : Len(list) < MaxStops}

\* The stop selector with its save button: the fetches complete, the user
\* toggles stops and saves; the POSTs answer in any order.
SaveNext ==
  \/ fetchStopsFrom(SaveCatalogs)
  \/ fetchSelectedStops
  \/ \E i \in 1..Len(stops) : toggleStop(stops[i].stop_id)
  \/ handleSave
  \/ \E i \in 1..MaxSaves : saveResolved(i)
  \/ \E i \in 1..MaxSaves : saveRejected(i)
  \/ clearSaveStatus

SaveSpec == Init /\ [][SaveNext]_vars

\* Five train stations packed so that the last one in sort order finds every
\* candidate it tests occupied: four stations at the corners of a square of
\* side 2 * 24975 around Zerega Av
DenseScene ==
  << [stop_id |-> <<"Z", "9", "N">>, stop_name |-> <<"Z", "e", "r", "e", "g", "a", "A", "v">>, lat |-> 0, lon |-> 0, type |-> "train"],
     [stop_id |-> <<"A", "1", "N">>, stop_name |-> <<"A", "s", "t", "o", "r", "P", "l">>, lat |-> 24975, lon |-> 24975, type |-> "train"],
     [stop_id |-> <<"A", "4", "N">>, stop_name |-> <<"A", "v", "e", "n", "u", "e", "J">>, lat |-> -24975, lon |-> -24975, type |-> "train"],
     [stop_id |-> <<"A", "2", "N">>, stop_name |-> <<"A", "v", "e", "n", "u", "e", "H">>, lat |-> 24975, lon |-> -24975, type |-> "train"],
     [stop_id |-> <<"A", "3", "N">>, stop_name |-> <<"A", "v", "e", "n", "u", "e", "I">>, lat |-> -24975, lon |-> 24975, type |-> "train"] >>

\* the dense scene, starting at each of its stops
DenseCatalogs ==
  { [i \in 1..Len(DenseScene) |-> DenseScene[((i + k - 1) % Len(DenseScene)) + 1]] :
      k \in 1..Len(DenseScene) }

MapCatalogs == Catalogs \cup DenseCatalogs

\* The map view of the selector over the catalogs of the universe and the
\* dense scene: the fetches complete, the user switches between list and map
\* and changes the transit type filter.
MapNext ==
  \/ fetchStopsFrom(MapCatalogs)
  \/ fetchSelectedStops
  \/ \E mode \in {"list", "map"} : setViewMode(mode)
  \/ \E checked \in BOOLEAN : setShowTrains(checked)
  \/ \E checked \in BOOLEAN : setShowBuses(checked)

MapSpec == Init /\ [][MapNext]_vars

\* The same view over the catalogs that hold one train stop with an
\* arbitrary stop id.
IdNext ==
  \/ fetchStopsFrom(IdCatalogs)
  \/ fetchSelectedStops
  \/ \E mode \in {"list", "map"} : setViewMode(mode)
  \/ \E checked \in BOOLEAN : setShowTrains(checked)
  \/ \E checked \in BOOLEAN : setShowBuses(checked)

IdSpec == Init /\ [][IdNext]_vars

\* stops of the list view: two names that differ in case only, two equal
\* names, two stops equally far from the position of GeoFixes
ListUniverse ==
  { [stop_id |-> <<"A", "1", "N">>, stop_name |-> <<"a", "v">>, lat |-> 0, lon |-> 10000, type |-> "train"],
    [stop_id |-> <<"A", "1", "S">>, stop_name |-> <<"A", "v">>, lat |-> 0, lon |-> 20000, type |-> "train"],
    [stop_id |-> <<"B", "2">>, stop_name |-> <<"A", "v">>, lat |-> 0, lon |-> 0, type |-> "bus"],
    [stop_id |-> <<"C", "3", "N">>, stop_name |-> <<"1", "s", "t">>, lat |-> 4000000, lon |-> 4000000, type |-> "train"] }

\* distances the backend may attach to a stop, in millionths of a mile:
\* every 0.0025 miles from 0, 0.099999, and the 2.34 miles of the examples
DistanceGrid == {2500 * j : j \in 0..MaxGrid} \cup {99999, 2340000}

\* catalogs of one stop that carries a distance
DistanceCatalogs ==
  { <<[stop_id |-> <<"D", "4", "N">>, stop_name |-> <<"D", "e", "y">>, lat |-> 0, lon |-> 0,
       type |-> "train", distance |-> m]>> : m \in DistanceGrid }

ListCatalogs ==
  {list \in SeqsUpTo(ListUniverse, MaxStops) : UniqueIds(list)} \cup DistanceCatalogs

\* The list view: the fetches complete, the browser reports its position and
\* the user changes the filter.
ListNext ==
  \/ fetchStopsFrom(ListCatalogs)
  \/ fetchSelectedStops
  \/ geolocationFix
  \/ \E checked \in BOOLEAN : setShowTrains(checked)
  \/ \E checked \in BOOLEAN : setShowBuses(checked)

ListSpec == Init /\ [][ListNext]_vars

\* catalogs of one stop
LocCatalogs == {list \in Catalogs : Len(list) = 1}

\* The location over page loads: the user switches between list and map,
\* drags the marker, resets it and reloads the page.
LocNext ==
  \/ fetchStopsFrom(LocCatalogs)
  \/ fetchSelectedStops
  \/ \E mode \in {"list", "map"} : setViewMode(mode)
  \/ geolocationFix
  \/ mountEffect
  \/ \E target \in DragTargets : handleMarkerDragEnd(target)
  \/ clearManualLocation
  \/ reload

LocSpec == Init /\ [][LocNext]_vars

\* the catalogs of directional train stops and of bus stops with a digit in
\* their id
PickCatalogs ==
  {list \in Catalogs :
     \A i \in 1..Len(list) :
       \/ list[i].type = "bus" /\ \E c \in Digits : includes(list[i].stop_id, c)
       \/ list[i].type = "train" /\ getDirectionFromStopId(list[i].stop_id) # NoDirection}

\* The map view with its popups: the fetches complete, the user opens the
\* map, changes the filter and toggles stops in the popups of the markers.
PickNext ==
  \/ fetchStopsFrom(PickCatalogs)
  \/ fetchSelectedStops
  \/ \E mode \in {"list", "map"} : setViewMode(mode)
  \/ \E checked \in BOOLEAN : setShowBuses(checked)
  \/ \E k \in 1..MaxStops : popupToggle(k)

PickSpec == Init /\ [][PickNext]_vars

\* ------------------------------------------------------------------------
\* Popup interaction: properties
\* ------------------------------------------------------------------------

LeaveEvents == {"mouseout", "popupleave"}

EnterEvents == {"mouseover", "popupenter"}

\* C1: at most one close timer is pending at any time, and a step that creates
\* a timer leaves none of the earlier timers pending.
C1_OnePendingTimer ==
  /\ [](Cardinality(Pending) <= 1)
  /\ [][Len(timers') > Len(timers) =>
          \A i \in 1..Len(timers) : timers'[i].status # "pending"]_vars

\* a second scheduleClose has superseded a timer that was still pending
C1_Witness ==
  /\ Len(timers) >= 2
  /\ lastEvent \in LeaveEvents
  /\ timers[Len(timers)].status = "pending"
  /\ timers[Len(timers) - 1].status = "cleared"
  /\ timers[Len(timers) - 1].remaining > 0

\* C2: after a click the marker is pinned with its popup open, and a pinned open
\* popup stays pinned and open in every step but a click on the close control.
C2_PinnedStaysOpen ==
  /\ [](lastEvent = "click" => isPinned /\ popupOpen)
  /\ [][isPinned /\ popupOpen =>
          (isPinned' /\ popupOpen') \/ lastEvent' = "closeclick"]_vars

\* a pinned popup that is still open after the pointer left the popup body
C2_Witness ==
  /\ isPinned
  /\ popupOpen
  /\ lastEvent = "popupleave"
  /\ Len(timers) >= 1

\* C3: a leave of the marker or of the popup body while unpinned arms one timer
\* with the full 150 ms and leaves the popup as it is; unless a hover, a
\* popup-enter or a click follows, the popup eventually is closed.
C3_DebouncedClose ==
  /\ [][pointer # "away" /\ pointer' = "away" /\ ~isPinned =>
          /\ closeTimeoutRef' \in 1..Len(timers')
          /\ timers'[closeTimeoutRef'].status = "pending"
          /\ timers'[closeTimeoutRef'].remaining = CLOSE_DELAY
          /\ popupOpen' = popupOpen]_vars
  /\ [](lastEvent \in LeaveEvents /\ ~isPinned /\ popupOpen =>
          <>(~popupOpen \/ lastEvent \in {"mouseover", "popupenter", "click"}))

\* the popup was closed by the timer of the last leave
C3_Witness ==
  /\ lastEvent \in LeaveEvents
  /\ ~isPinned
  /\ ~popupOpen
  /\ closeTimeoutRef # NoTimer
  /\ timers[closeTimeoutRef].status = "fired"

\* C4: after a hover or a popup-enter no timer is pending, a hovered marker has
\* its popup open, and until the next pointer event no step closes the popup.
C4_EnterCancelsClose ==
  /\ [](lastEvent \in EnterEvents => Pending = {})
  /\ [](lastEvent = "mouseover" => popupOpen)
  /\ [][lastEvent' = "popupenter" /\ pointer # "popup" => popupOpen' = popupOpen]_vars
  /\ [][(lastEvent \in EnterEvents) /\ lastEvent' = lastEvent /\ popupOpen => popupOpen']_vars

\* the pointer entered the popup body while the close timer was counting down
C4_Witness ==
  /\ lastEvent = "popupenter"
  /\ ~isPinned
  /\ popupOpen
  /\ Len(timers) >= 1
  /\ timers[Len(timers)].status = "cleared"
  /\ timers[Len(timers)].remaining \in 1..(CLOSE_DELAY - 1)

\* C5: a click on the close control unpins and closes in that step and touches
\* no timer; the marker then is closed and unpinned until the next pointer
\* event, and a hover that follows opens the popup unpinned.
C5_CloseClickImmediate ==
  /\ [][isPinned /\ lastEvent' = "closeclick" =>
          ~isPinned' /\ ~popupOpen' /\ timers' = timers /\ closeTimeoutRef' = closeTimeoutRef]_vars
  /\ [](lastEvent = "closeclick" => ~isPinned /\ ~popupOpen /\ Pending = {})
  /\ [][lastEvent = "closeclick" /\ lastEvent' = "mouseover" => popupOpen' /\ ~isPinned']_vars

\* the close control was clicked on a marker that had scheduled timers before
C5_Witness ==
  /\ lastEvent = "closeclick"
  /\ ~isPinned
  /\ ~popupOpen
  /\ Len(timers) >= 1

\* C6 speaks of a due timer on a pinned marker. Neither state predicate below
\* is ever violated: no timer is pending while the marker is pinned, and the
\* isPinned value a pending callback captured equals the current one, so the
\* case C6 describes is not reachable.
PinnedHasNoPendingTimer == isPinned => Pending = {}

CapturedPinIsCurrent == \A i \in Pending : timers[i].isPinned = isPinned

\* C7: an unmounted marker has no pending close timer, and no timer callback
\* runs after the unmount.
C7_NoTimerAfterUnmount ==
  /\ [](~mounted => Pending = {})
  /\ [][~mounted => \A i \in 1..Len(timers) :
                       timers'[i].status = "fired" => timers[i].status = "fired"]_vars

\* the unmount cancelled the timer the ref still names
C7_Witness ==
  /\ ~mounted
  /\ closeTimeoutRef # NoTimer
  /\ timers[closeTimeoutRef].status = "cleared"

\* ------------------------------------------------------------------------
\* Selection state: properties
\* ------------------------------------------------------------------------

\* the station groups the map view renders for the current catalog
Groups == stationGroups(stops).groups

Selected == {selectedStopIds[i] : i \in 1..Len(selectedStopIds)}

\* stop ids of the variants present on a group
PresentIds(group) == {group.stops[d].stop_id : d \in DOMAIN group.stops}

Rank(state) == CASE state = "none" -> 0 [] state = "partial" -> 1 [] state = "full" -> 2

\* C8: a train group with at least one variant is full iff every present variant
\* is selected, partial iff some but not all are, none iff none is.
C8_FullIffAllPresentSelected ==
  LET groups == Groups
      selected == Selected
  IN  \A b \in DOMAIN groups :
        LET g == groups[b]
            sel == PresentIds(g) \cap selected
        IN  (g.type = "train" /\ PresentIds(g) # {}) =>
              getSelectionState(g, selectedStopIds) =
                (IF sel = PresentIds(g) THEN "full" ELSE IF sel # {} THEN "partial" ELSE "none")

\* C9: adding any stop id to the selection never lowers the state of any group.
C9_SelectionMonotonic ==
  LET groups == Groups
  IN  \A b \in DOMAIN groups :
        LET before == Rank(getSelectionState(groups[b], selectedStopIds))
        IN  \A x \in StopIds :
              Rank(getSelectionState(groups[b], Append(selectedStopIds, x))) >= before

\* a group that is partial and becomes full when its other variant is added
C9_Witness ==
  \E b \in DOMAIN Groups : \E x \in StopIds :
    /\ getSelectionState(Groups[b], selectedStopIds) = "partial"
    /\ getSelectionState(Groups[b], Append(selectedStopIds, x)) = "full"

\* C10: a bus group is full iff its baseId is selected and none otherwise.
C10_BusFullOrNone ==
  LET groups == Groups
      selected == Selected
  IN  \A b \in DOMAIN groups :
        groups[b].type = "bus" =>
          getSelectionState(groups[b], selectedStopIds) =
            (IF groups[b].baseId \in selected THEN "full" ELSE "none")

\* one bus group is selected, and another is not although a selected train
\* stop sits in its variants
C10_Witness ==
  /\ \E b \in DOMAIN Groups :
       /\ Groups[b].type = "bus"
       /\ Groups[b].baseId \in Selected
       /\ getSelectionState(Groups[b], selectedStopIds) = "full"
  /\ \E b \in DOMAIN Groups :
       /\ Groups[b].type = "bus"
       /\ PresentIds(Groups[b]) \cap Selected # {}
       /\ getSelectionState(Groups[b], selectedStopIds) = "none"

\* ------------------------------------------------------------------------
\* Station grouping: properties of the rendered map view
\* ------------------------------------------------------------------------

\* the map view is rendered and its memos are computed
Rendered == mapView.status = "map"

\* the `stops` prop of the map view
MapInput == filteredStops(stops, showTrains, showBuses)

\* a train stop whose id carries a direction letter
isDirectional(stop) ==
  stop.type = "train" /\ getDirectionFromStopId(stop.stop_id) # NoDirection

\* a train stop whose id carries none: a parent station
isParent(stop) ==
  stop.type = "train" /\ getDirectionFromStopId(stop.stop_id) = NoDirection

\* indices of the groups that carry the base id b
WithBaseId(groups, b) == {k \in 1..Len(groups) : groups[k].baseId = b}

\* indices of the groups that hold the record r as a variant
Holding(groups, r) ==
  {k \in 1..Len(groups) : \E d \in DOMAIN groups[k].stops : groups[k].stops[d] = r}

\* C11: over the input of a rendered map view, every base id that receives a
\* directional train record has exactly one group; two records of one base id
\* with different directions are its variants N and S; records of different
\* base ids have different groups; a base id that receives one direction only
\* has a group with exactly that variant.
C11_MergeByBaseId ==
  Rendered =>
    LET input == MapInput
        groups == mapView.groups
    IN  \A i, j \in 1..Len(input) :
          (isDirectional(input[i]) /\ isDirectional(input[j])) =>
            LET bi == getBaseStationId(input[i].stop_id)
                bj == getBaseStationId(input[j].stop_id)
                di == getDirectionFromStopId(input[i].stop_id)
                dj == getDirectionFromStopId(input[j].stop_id)
                gi == groups[CHOOSE k \in WithBaseId(groups, bi) : TRUE]
            IN  /\ Cardinality(WithBaseId(groups, bi)) = 1
                /\ (bi = bj /\ di # dj) =>
                      /\ DOMAIN gi.stops = {"N", "S"}
                      /\ gi.stops[di] = input[i]
                      /\ gi.stops[dj] = input[j]
                /\ (bi # bj) => WithBaseId(groups, bi) \cap WithBaseId(groups, bj) = {}
                /\ (\A k \in 1..Len(input) :
                       (isDirectional(input[k]) /\ getBaseStationId(input[k].stop_id) = bi)
                         => getDirectionFromStopId(input[k].stop_id) = di)
                     => (DOMAIN gi.stops = {di} /\ gi.stops[di] = input[i])

\* C12: a parent train record of the input is skipped: the groups of the
\* rendered view are those of the input without the record (same groups, same
\* names, coordinates and variants), and no group holds the record.
C12_ParentSkipped ==
  Rendered =>
    LET input == MapInput
        groups == mapView.groups
    IN  \A i \in 1..Len(input) :
          isParent(input[i]) =>
            /\ groups = ObjectValues(stationGroups(removeAt(input, i)))
            /\ Holding(groups, input[i]) = {}

\* a parent record was rendered together with a platform of its station, whose
\* group keeps the name and the place of the platform
C12_Witness ==
  /\ Rendered
  /\ \E i, j \in 1..Len(MapInput) :
       /\ isParent(MapInput[i])
       /\ isDirectional(MapInput[j])
       /\ i < j
       /\ getBaseStationId(MapInput[j].stop_id) = MapInput[i].stop_id
       /\ \E k \in 1..Len(mapView.groups) :
            /\ mapView.groups[k].baseId = MapInput[i].stop_id
            /\ mapView.groups[k].name = MapInput[j].stop_name
            /\ mapView.groups[k].lat = MapInput[j].lat

\* C13: over an input with unique stop ids, every non-train record is a group
\* of its own, of kind bus, without variants and with the data of the record;
\* there are as many bus groups as non-train records; every directional train
\* record is held by exactly one group, the train group of its base id.
C13_OneGroupPerRecord ==
  (Rendered /\ UniqueIds(MapInput)) =>
    LET input == MapInput
        groups == mapView.groups
    IN  /\ \A i \in 1..Len(input) :
             input[i].type # "train" =>
               /\ Cardinality(WithBaseId(groups, input[i].stop_id)) = 1
               /\ \A k \in WithBaseId(groups, input[i].stop_id) :
                    /\ groups[k].type = "bus"
                    /\ DOMAIN groups[k].stops = {}
                    /\ groups[k].name = input[i].stop_name
                    /\ groups[k].lat = input[i].lat
                    /\ groups[k].lon = input[i].lon
        /\ Cardinality({k \in 1..Len(groups) : groups[k].type = "bus"})
             = Cardinality({i \in 1..Len(input) : input[i].type # "train"})
        /\ \A i \in 1..Len(input) :
             isDirectional(input[i]) =>
               /\ Cardinality(Holding(groups, input[i])) = 1
               /\ \A k \in Holding(groups, input[i]) :
                    /\ groups[k].type = "train"
                    /\ groups[k].baseId = getBaseStationId(input[i].stop_id)
                    /\ groups[k].stops[getDirectionFromStopId(input[i].stop_id)] = input[i]

\* ------------------------------------------------------------------------
\* Marker layout: properties of the rendered map view
\* ------------------------------------------------------------------------

\* the sequence `list` rearranged by the permutation p of its indices
Rearranged(list, p) == [i \in 1..Len(list) |-> list[p[i]]]

\* two positions collide: both deltas are below the threshold
Collide(p, q) ==
  Abs(p[1] - q[1]) < MIN_SEPARATION /\ Abs(p[2] - q[2]) < MIN_SEPARATION

\* C14: the positions of the rendered view are those the layout computes from
\* the groups taken in any other order: every baseId gets the same position.
C14_LayoutOrderIndependent ==
  Rendered =>
    LET groups == mapView.groups
        positions == mapView.positions
    IN  \A p \in Permutations(1..Len(groups)) :
          adjustedPositions(Rearranged(groups, p)) = positions

\* the groups arrived in another order than the layout processes them in, and
\* the layout moved one of them away from a collision
C14_Witness ==
  /\ Rendered
  /\ sortByBaseId(mapView.groups) # mapView.groups
  /\ \E k \in 1..Len(mapView.groups) :
       mapView.positions[mapView.groups[k].baseId]
         # <<mapView.groups[k].lat, mapView.groups[k].lon>>

\* C15: of two distinct groups, when the one processed later left its loop
\* with attempts to spare, the two positions differ by at least
\* MIN_SEPARATION in latitude or in longitude.
C15_SeparatedUnlessExhausted ==
  Rendered =>
    LET groups == mapView.groups
        positions == mapView.positions
        sorted == sortByBaseId(groups)
        attempts == layoutAttempts(groups)
    IN  \A a, b \in 1..Len(sorted) :
          (a < b /\ attempts[sorted[b].baseId] < maxAttempts) =>
            \/ Abs(positions[sorted[a].baseId][1] - positions[sorted[b].baseId][1]) >= MIN_SEPARATION
            \/ Abs(positions[sorted[a].baseId][2] - positions[sorted[b].baseId][2]) >= MIN_SEPARATION

\* two groups whose own coordinates collide; the later one was moved after
\* more than one candidate and within its budget
C15_Witness ==
  /\ Rendered
  /\ LET sorted == sortByBaseId(mapView.groups)
         attempts == layoutAttempts(mapView.groups)
     IN  \E a, b \in 1..Len(sorted) :
           /\ a < b
           /\ Collide(<<sorted[a].lat, sorted[a].lon>>, <<sorted[b].lat, sorted[b].lon>>)
           /\ attempts[sorted[b].baseId] > 1
           /\ attempts[sorted[b].baseId] < maxAttempts
           /\ ~Collide(mapView.positions[sorted[a].baseId], mapView.positions[sorted[b].baseId])

\* C16: the layout of every rendered view is complete: each group ran at most
\* maxAttempts collision-test rounds, every baseId has a recorded position and
\* nothing else has, and a group whose tested candidates all collided holds
\* the candidate computed last.
C16_BoundedAndComplete ==
  Rendered =>
    LET groups == mapView.groups
        positions == mapView.positions
        attempts == layoutAttempts(groups)
    IN  /\ DOMAIN positions = {groups[k].baseId : k \in 1..Len(groups)}
        /\ \A k \in 1..Len(groups) :
             LET g == groups[k]
                 rounds == IF attempts[g.baseId] < maxAttempts
                             THEN attempts[g.baseId] + 1 ELSE attempts[g.baseId]
             IN  /\ rounds <= maxAttempts
                 /\ attempts[g.baseId] = 0 => positions[g.baseId] = <<g.lat, g.lon>>
                 /\ attempts[g.baseId] > 0 =>
                      positions[g.baseId] = <<g.lat + offsetLat(attempts[g.baseId] - 1),
                                              g.lon + offsetLon(attempts[g.baseId] - 1)>>

\* a group used up its attempts and holds the candidate of the last attempt
C16_Witness ==
  /\ Rendered
  /\ \E k \in 1..Len(mapView.groups) :
       /\ layoutAttempts(mapView.groups)[mapView.groups[k].baseId] = maxAttempts
       /\ mapView.groups[k].baseId \in DOMAIN mapView.positions

\* ------------------------------------------------------------------------
\* Stop identifiers: properties
\* ------------------------------------------------------------------------

\* the stop ids of the catalog
CatalogIds == {stops[i].stop_id : i \in 1..Len(stops)}

\* the upper-case form of a letter, read off the alphabet
Capital(c) ==
  IF \E i \in 1..Len(LowerCase) : LowerCase[i] = c
    THEN UpperCase[CHOOSE i \in 1..Len(LowerCase) : LowerCase[i] = c]
    ELSE c

\* C17: for every stop id s of the catalog, if s ends in N or S the base id
\* followed by the direction is s, otherwise the direction is null and the
\* base id is s; the variants of a rendered group recompose to their stop ids.
C17_BasePlusDirection ==
  /\ \A s \in CatalogIds :
       IF Len(s) > 0 /\ s[Len(s)] \in {"N", "S"}
         THEN getBaseStationId(s) \o <<getDirectionFromStopId(s)>> = s
         ELSE getDirectionFromStopId(s) = NoDirection /\ getBaseStationId(s) = s
  /\ Rendered =>
       \A k \in 1..Len(mapView.groups) :
         \A d \in DOMAIN mapView.groups[k].stops :
           mapView.groups[k].baseId \o <<d>> = mapView.groups[k].stops[d].stop_id

\* a stop id with an N inside and an S at its end was decomposed and rendered
C17_Witness ==
  /\ Rendered
  /\ \E k \in 1..Len(mapView.groups) :
       /\ DOMAIN mapView.groups[k].stops = {"S"}
       /\ Len(mapView.groups[k].baseId) = MaxIdLen - 1
       /\ mapView.groups[k].baseId[Len(mapView.groups[k].baseId)] = "N"
       /\ mapView.groups[k].baseId \o <<"S">> \in CatalogIds

\* C18: no parser throws on a stop id of the catalog and no render of the map
\* view ends in an exception.
C18_ParsersTotal ==
  /\ mapView.status # "crashed"
  /\ \A s \in CatalogIds : getRouteFromStopId(s) # TypeError

\* C19: for every stop id of the catalog whose base id is not empty, the route
\* is the first character of the base id, as it is for a digit and in upper
\* case for a letter; the string the route is read from is the base id; the
\* route of a rendered train group is read from its base id in the same way.
C19_RouteIsLeadingCharacter ==
  /\ getRouteFromStopId(<<"L", "1", "2", "N">>) = "L"
  /\ getRouteFromStopId(<<"1", "0", "1", "N">>) = "1"
  /\ getRouteFromStopId(<<"G", "1", "4", "S">>) = "G"
  /\ \A s \in CatalogIds :
       LET base == getBaseStationId(s)
       IN  /\ replaceTrailingNS(s) = base
           /\ base # <<>> =>
                getRouteFromStopId(s) = IF base[1] \in Digits THEN base[1] ELSE Capital(base[1])
  /\ Rendered =>
       \A k \in 1..Len(mapView.groups) :
         LET g == mapView.groups[k]
         IN  g.type = "train" =>
               g.route = IF g.baseId[1] \in Digits THEN g.baseId[1] ELSE Capital(g.baseId[1])

\* a stop id that starts with a lower-case letter and ends in a direction
\* letter was rendered as a group of the upper-case route
C19_Witness ==
  /\ Rendered
  /\ \E k \in 1..Len(mapView.groups) :
       /\ mapView.groups[k].type = "train"
       /\ Len(mapView.groups[k].baseId) >= 2
       /\ mapView.groups[k].baseId[1] = "g"
       /\ mapView.groups[k].baseId[2] \in {"N", "S"}
       /\ mapView.groups[k].route = "G"

\* ------------------------------------------------------------------------
\* End to end: the two platforms of one station
\* ------------------------------------------------------------------------

L12N == <<"L", "1", "2", "N">>

L12S == <<"L", "1", "2", "S">>

\* the catalog holds the train stops L12N and L12S, at identical coordinates,
\* and nothing else; L12N alone is selected; the map view shows train stops
TwoPlatforms ==
  /\ Rendered
  /\ showTrains
  /\ Len(stops) = 2
  /\ {stops[1].stop_id, stops[2].stop_id} = {L12N, L12S}
  /\ stops[1].type = "train" /\ stops[2].type = "train"
  /\ stops[1].lat = stops[2].lat /\ stops[1].lon = stops[2].lon
  /\ selectedStopIds = <<L12N>>

\* C20: the two platforms L12N and L12S with L12N selected are rendered as one
\* group L12 with both variants, in state partial, at one position.
C20_OneMarkerForTwoPlatforms ==
  TwoPlatforms =>
    /\ Len(mapView.groups) = 1
    /\ mapView.groups[1].baseId = <<"L", "1", "2">>
    /\ mapView.groups[1].type = "train"
    /\ DOMAIN mapView.groups[1].stops = {"N", "S"}
    /\ mapView.groups[1].stops["N"].stop_id = L12N
    /\ mapView.groups[1].stops["S"].stop_id = L12S
    /\ getSelectionState(mapView.groups[1], selectedStopIds) = "partial"
    /\ DOMAIN mapView.positions = {<<"L", "1", "2">>}
    /\ mapView.positions[<<"L", "1", "2">>] = <<stops[1].lat, stops[1].lon>>

\* the scenario was rendered with L12S first in the catalog
C20_Witness ==
  /\ TwoPlatforms
  /\ stops[1].stop_id = L12S
  /\ Len(mapView.groups) = 1

\* ------------------------------------------------------------------------
\* Selection and saving: properties
\* ------------------------------------------------------------------------

\* C21: once the selection is loaded, a step that issues a save or completes
\* one leaves selectedStopIds as it is, so what the user toggled while the
\* save was in flight is still selected afterwards.
C21_SaveKeepsSelection ==
  [][(~loading /\ saveRequests' # saveRequests) => selectedStopIds' = selectedStopIds]_vars

\* C22: toggling x gives a list that holds x iff the selection did not and
\* holds every other id iff the selection did; toggling x again gives the
\* membership of the selection; and every change of the loaded selection is
\* the replacement by such a list.
C22_ToggleFlipsOneId ==
  /\ [](\A x \in StopIds :
          LET before == {selectedStopIds[i] : i \in 1..Len(selectedStopIds)}
              once == newSelected(selectedStopIds, x)
              twice == newSelected(once, x)
          IN  /\ includes(once, x) <=> x \notin before
              /\ \A y \in StopIds \cup before : y # x => (includes(once, y) <=> y \in before)
              /\ {twice[i] : i \in 1..Len(twice)} = before)
  /\ [][(~loading /\ selectedStopIds' # selectedStopIds) =>
          \E x \in StopIds : selectedStopIds' = newSelected(selectedStopIds, x)]_vars

\* both stops of a catalog were toggled on, the second one first
C22_Witness ==
  /\ ~loading
  /\ Len(selectedStopIds) = 2
  /\ Len(stops) = 2
  /\ selectedStopIds[1] = stops[2].stop_id
  /\ selectedStopIds[2] = stops[1].stop_id


\* ------------------------------------------------------------------------
\* Distances and the list view: properties
\* ------------------------------------------------------------------------

\* the stops StopsListView is given
ListInput == filteredStops(stops, showTrains, showBuses)

\* the location StopsListView is given
Location == effectiveLocation(manualLocation, browserLocation)

\* `out` is `in` with the distance to the location the list is given
Measured(out, in) ==
  /\ DOMAIN out = DOMAIN in \cup {"distance"}
  /\ \A f \in DOMAIN in \ {"distance"} : out[f] = in[f]
  /\ out.distance = calculateDistance(Location.lat, Location.lon, in.lat, in.lon)

\* C23: sortStopsByDistance returns a permutation of its input and leaves the
\* input as it was. Without a location the result is ordered by stop_name, with
\* a location it is ordered by ascending distance to it; stops with equal keys
\* keep the order they have in the input.
C23_SortedPermutation ==
  listView.mounted =>
    LET in  == ListInput
        out == listView.sorted
    IN  /\ listView.stops = in
        /\ Len(out) = Len(in)
        /\ \E p \in Permutations(1..Len(in)) :
             /\ \A i \in 1..Len(in) :
                  IF Location.set THEN Measured(out[i], in[p[i]]) ELSE out[i] = in[p[i]]
             /\ \A i, j \in 1..Len(in) : i < j =>
                  IF Location.set
                    THEN /\ out[i].distance <= out[j].distance
                         /\ out[i].distance = out[j].distance => p[i] < p[j]
                    ELSE /\ localeCompare(out[i].stop_name, out[j].stop_name) <= 0
                         /\ localeCompare(out[i].stop_name, out[j].stop_name) = 0
                              => p[i] < p[j]

\* three stops are listed by distance: two of them are equally far and the
\* nearest one is not the first of the input
C23_Witness ==
  /\ listView.mounted
  /\ Location.set
  /\ Len(listView.sorted) = 3
  /\ listView.sorted[1].distance = listView.sorted[2].distance
  /\ listView.sorted[1].stop_id # ListInput[1].stop_id


\* the distances the list view shows, in millionths of a mile
ShownDistances ==
  {listView.sorted[i].distance :
     i \in {k \in 1..Len(listView.sorted) : "distance" \in DOMAIN listView.sorted[k]}}

\* `text` is the decimal form of a natural number
isDecimal(text) ==
  /\ text # <<>>
  /\ \A i \in 1..Len(text) : text[i] \in Digits
  /\ Len(text) > 1 => text[1] # "0"

\* `label` is `text` followed by `unit`
EndsWithUnit(label, unit) ==
  /\ Len(label) > Len(unit)
  /\ SubSeq(label, Len(label) - Len(unit) + 1, Len(label)) = unit

\* C24: formatDistance renders a distance below 0.1 miles as the integer
\* nearest to miles * 5280 (halves go up) followed by " ft", and a distance of
\* 0.1 miles or more as a number with exactly one decimal place, within 0.05
\* of the distance, followed by " mi"; 0.05 gives "264 ft", 0.1 gives
\* "0.1 mi" and 2.34 gives "2.3 mi".
C24_FeetBelowTenthMile ==
  /\ formatDistance(50000) = <<"2", "6", "4", " ", "f", "t">>
  /\ formatDistance(100000) = <<"0", ".", "1", " ", "m", "i">>
  /\ formatDistance(2340000) = <<"2", ".", "3", " ", "m", "i">>
  /\ \A m \in ShownDistances :
       LET label == formatDistance(m)
           feet  == SubSeq(label, 1, Len(label) - 3)
           whole == SubSeq(label, 1, Len(label) - 5)
       IN  IF m < 100000
             THEN /\ EndsWithUnit(label, <<" ", "f", "t">>)
                  /\ isDecimal(feet)
                  /\ 1000000 * numericValue(feet) - 500000 <= 5280 * m
                  /\ 5280 * m < 1000000 * numericValue(feet) + 500000
             ELSE /\ EndsWithUnit(label, <<" ", "m", "i">>)
                  /\ Len(label) >= 6
                  /\ isDecimal(whole)
                  /\ label[Len(label) - 4] = "."
                  /\ label[Len(label) - 3] \in Digits
                  /\ LET tenths == 10 * numericValue(whole)
                                     + digitValue(label[Len(label) - 3])
                     IN  /\ 100000 * tenths - 50000 <= m
                         /\ m <= 100000 * tenths + 50000

\* the list shows a stop that is exactly 0.1 miles away
C24_Witness ==
  /\ listView.mounted
  /\ 100000 \in ShownDistances
  /\ \E i \in 1..Len(listView.sorted) :
       /\ "distance" \in DOMAIN listView.sorted[i]
       /\ formatDistance(listView.sorted[i].distance) = <<"0", ".", "1", " ", "m", "i">>


\* ------------------------------------------------------------------------
\* The user's location: properties
\* ------------------------------------------------------------------------

\* the list measures every stop from `origin`, or from nowhere
MeasuredFrom(origin) ==
  \A i \in 1..Len(listView.sorted) :
    IF origin.set
      THEN /\ "distance" \in DOMAIN listView.sorted[i]
           /\ listView.sorted[i].distance =
                calculateDistance(origin.lat, origin.lon,
                                  listView.sorted[i].lat, listView.sorted[i].lon)
      ELSE "distance" \notin DOMAIN listView.sorted[i]

\* the views are given the manual location if there is one, the location of
\* the browser if not
ManualElseBrowser ==
  listView.mounted =>
    MeasuredFrom(IF manualLocation.set THEN manualLocation ELSE browserLocation)

\* the stored item is the manual location: both absent, or the same point
StoredIsManual ==
  /\ localStorage.present <=> manualLocation.set
  /\ manualLocation.set =>
       localStorage.lat = manualLocation.lat /\ localStorage.lon = manualLocation.lon

GroupKey(stop) ==
  IF stop.type # "train" THEN stop.stop_id ELSE getBaseStationId(stop.stop_id)

\* the record is not skipped by the loop of stationGroups
Contributes(stop) == stop.type # "train" \/ isDirectional(stop)

\* the groups object after the first k records of `input`
GroupsAfter(input, k) == stationGroups(SubSeq(input, 1, k)).groups

\* C26: over the input of a rendered map view, a record whose group exists
\* already leaves the name, lat, lon and route of the group and its other
\* variants as they are and only sets the variant of its direction; the name
\* and coordinates of every group are those of the first record of its key.
C26_FirstSeenWins ==
  Rendered =>
    LET input == MapInput
    IN  \A k \in 1..Len(input) :
          LET before == GroupsAfter(input, k - 1)
              after  == GroupsAfter(input, k)
              key    == GroupKey(input[k])
          IN  (Contributes(input[k]) /\ key \in DOMAIN before) =>
                /\ after[key].name = before[key].name
                /\ after[key].lat = before[key].lat
                /\ after[key].lon = before[key].lon
                /\ after[key].route = before[key].route
                /\ \A d \in DOMAIN before[key].stops :
                     d # getDirectionFromStopId(input[k].stop_id) =>
                       /\ d \in DOMAIN after[key].stops
                       /\ after[key].stops[d] = before[key].stops[d]
                /\ \A j \in 1..Len(mapView.groups) :
                     mapView.groups[j].baseId = key =>
                       /\ mapView.groups[j].name = before[key].name
                       /\ mapView.groups[j].lat = before[key].lat
                       /\ mapView.groups[j].lon = before[key].lon


\* ------------------------------------------------------------------------
\* Marker layout: displacement from the raw coordinates
\* ------------------------------------------------------------------------

\* the raw coordinates of a group
Raw(group) == <<group.lat, group.lon>>

\* the groups of the view that are processed before `group`
ProcessedBefore(group) ==
  {h \in {mapView.groups[k] : k \in 1..Len(mapView.groups)} :
     localeCompare(h.baseId, group.baseId) < 0}

\* the attempt indices whose offset leads from the raw coordinates of `group`
\* to its position
OffsetIndices(group) ==
  {a \in 0..(maxAttempts - 1) :
     mapView.positions[group.baseId]
       = <<group.lat + offsetLat(a), group.lon + offsetLon(a)>>}

\* C27: in a rendered view a group whose raw coordinates collide with no
\* position assigned before it holds its raw coordinates, so does the first
\* group in baseId order, and every other position is the raw coordinates plus
\* the offset of one attempt index in 0..19.
C27_RawOrSingleOffset ==
  Rendered =>
    \A k \in 1..Len(mapView.groups) :
      LET g == mapView.groups[k]
          free == \A h \in ProcessedBefore(g) : ~Collide(Raw(g), mapView.positions[h.baseId])
      IN  /\ free => mapView.positions[g.baseId] = Raw(g)
          /\ ProcessedBefore(g) = {} => mapView.positions[g.baseId] = Raw(g)
          /\ mapView.positions[g.baseId] # Raw(g) => OffsetIndices(g) # {}

\* a group was moved by the offset of an attempt index above 1, next to a
\* group that holds its raw coordinates
C27_Witness ==
  /\ Rendered
  /\ \E k, j \in 1..Len(mapView.groups) :
       /\ mapView.positions[mapView.groups[k].baseId] # Raw(mapView.groups[k])
       /\ OffsetIndices(mapView.groups[k]) # {}
       /\ \A a \in OffsetIndices(mapView.groups[k]) : a > 1
       /\ ProcessedBefore(mapView.groups[j]) = {}
       /\ mapView.positions[mapView.groups[j].baseId] = Raw(mapView.groups[j])

\* the radius the source computes for each attempt index, in the units of
\* MIN_SEPARATION
ExpectedRadius(a) ==
  IF a < 8 THEN MIN_SEPARATION
  ELSE IF a < 16 THEN MIN_SEPARATION + MIN_SEPARATION \div 2
  ELSE 2 * MIN_SEPARATION

\* C28: the radius of attempt 0..19 is MIN_SEPARATION * (1 + floor(attempt / 8)
\* * 0.5), and in a rendered view no position lies further than
\* 2 * MIN_SEPARATION from the raw coordinates of its group, in latitude or in
\* longitude, whether or not the group used up its attempts.
C28_DisplacementBounded ==
  /\ \A a \in 0..(maxAttempts - 1) : radius(a) = ExpectedRadius(a)
  /\ Rendered =>
       \A k \in 1..Len(mapView.groups) :
         LET g == mapView.groups[k]
         IN  /\ Abs(mapView.positions[g.baseId][1] - g.lat) <= 2 * MIN_SEPARATION
             /\ Abs(mapView.positions[g.baseId][2] - g.lon) <= 2 * MIN_SEPARATION

\* a group used up its attempts and lies more than 1.5 * MIN_SEPARATION from
\* its raw coordinates
C28_Witness ==
  /\ Rendered
  /\ \E k \in 1..Len(mapView.groups) :
       LET g == mapView.groups[k]
       IN  /\ layoutAttempts(mapView.groups)[g.baseId] = maxAttempts
           /\ \/ 2 * Abs(mapView.positions[g.baseId][1] - g.lat) > 3 * MIN_SEPARATION
              \/ 2 * Abs(mapView.positions[g.baseId][2] - g.lon) > 3 * MIN_SEPARATION


\* ------------------------------------------------------------------------
\* Popup interaction: the pinned marker
\* ------------------------------------------------------------------------

\* C29: in every state the pointer events, the clicks and the timers lead to,
\* a pinned marker has its popup open and no close timer is pending; a close
\* timer is pending only while the marker is unpinned, and a step that arms
\* one leaves the marker unpinned.
C29_PinnedOpenWithoutTimer ==
  /\ [](isPinned => popupOpen /\ Pending = {})
  /\ [](Pending # {} => ~isPinned)
  /\ [][(\E i \in Pending' : i \notin Pending) => ~isPinned']_vars

\* the pointer left a pinned marker that had cancelled a running timer: the
\* popup is open and nothing is pending
C29_Witness ==
  /\ mounted
  /\ isPinned
  /\ popupOpen
  /\ lastEvent = "mouseout"
  /\ Pending = {}
  /\ \E i \in 1..Len(timers) : timers[i].status = "cleared" /\ timers[i].remaining > 0


\* ------------------------------------------------------------------------
\* Selection from the popups of the map
\* ------------------------------------------------------------------------

\* the selection state of the k-th marker under the selection `selected`
StateOf(k, selected) == getSelectionState(mapView.groups[k], selected)

\* C30: while the map is rendered over stops with unique ids, every change of
\* the selection flips a stop id of the popup of one marker, leaves the groups
\* and the positions as they are, and leaves the selection state of every
\* other marker as it is.
C30_ToggleTouchesOneStation ==
  [][(Rendered /\ UniqueIds(MapInput) /\ selectedStopIds' # selectedStopIds) =>
       /\ mapView' = mapView
       /\ \E k \in 1..Len(mapView.groups) :
            /\ \E stopId \in popupToggleIds(mapView.groups[k]) :
                 includes(selectedStopIds', stopId) # includes(selectedStopIds, stopId)
            /\ \A j \in 1..Len(mapView.groups) :
                 j # k => StateOf(j, selectedStopIds') = StateOf(j, selectedStopIds)]_vars

\* three markers, one of them with one of its two variants selected, another
\* one fully selected
C30_Witness ==
  /\ Rendered
  /\ Len(mapView.groups) >= 2
  /\ \E k, j \in 1..Len(mapView.groups) :
       /\ StateOf(k, selectedStopIds) = "partial"
       /\ StateOf(j, selectedStopIds) = "full"

====
